---- MODULE Spec2Model ----
(***************************************************************************)
(* The kernel/user exchange area of src/src/lib.rs: one statically placed  *)
(* byte buffer (EXCHANGE_AREA), the overlap guard Area::check_overlapping, *)
(* and the ExhangeArea<T> copy operations for T = u8 and T = ShmInfo.      *)
(*                                                                         *)
(* Memory is one flat address space of 2^AddrBits bytes; the exchange      *)
(* buffer occupies [area, area_end) in it and everything else is caller    *)
(* memory.  Address a is stored at index a + 1 of the sequence mem.        *)
(***************************************************************************)
EXTENDS Integers, Sequences, FiniteSets, TLC

\* ---------------------------------------------------------------- bounds
\* Width of usize / of an address in the model.
AddrBits == 9
\* Number of interface calls in one run.
MaxOps == 2
\* Number of Area handles that may exist.
MaxHandles == 2

\* ------------------------------------------------------- program constants
\* const EXCHANGE_AREA_LEN: usize = 128
EXCHANGE_AREA_LEN == 128
\* Width in bytes of each ShmInfo field on the 32-bit target (u32, usize).
FieldSize == 4
\* core::mem::size_of::<ShmInfo>(): five 4-byte fields, no padding.
ShmInfoSize == 20
\* EXCHANGE_AREA.as_ptr(): the address the linker gives the .svcexchange
\* section.
area == 192
\* let area_end = area.add(EXCHANGE_AREA_LEN)
area_end == area + EXCHANGE_AREA_LEN

AddrSpace == 2 ^ AddrBits
Addr == 0 .. (AddrSpace - 1)

Min(a, b) == IF a < b THEN a ELSE b

\* ------------------------------------------------------------------ memory
\* The byte at address a (addresses wrap at the top of the address space).
Rd(m, a) == m[(a % AddrSpace) + 1]

\* The addresses of the n bytes starting at p.
Range(p, n) == { (p + i) % AddrSpace : i \in 0 .. (n - 1) }

AreaRange == Range(area, EXCHANGE_AREA_LEN)

\* The n bytes starting at p, as a sequence.
Bytes(m, p, n) == [i \in 1 .. n |-> Rd(m, p + i - 1)]

\* static mut EXCHANGE_AREA: [u8; EXCHANGE_AREA_LEN] = [0u8; ...]; caller
\* memory holds arbitrary non-zero data, different at neighbouring addresses.
InitMem ==
    [j \in 1 .. AddrSpace |->
        IF (j - 1) \in AreaRange THEN 0 ELSE 1 + ((j - 1) % 7)]

\* The EXCHANGE_AREA array as a sequence of EXCHANGE_AREA_LEN bytes.
EXCHANGE_AREA(m) == Bytes(m, area, EXCHANGE_AREA_LEN)

\* ------------------------------------------------- copy_nonoverlapping
\* A copy that reads all of the source before it writes (memmove).
Buffered(m, src, dst, n) ==
    [j \in 1 .. AddrSpace |->
        LET off == ((j - 1) - dst) % AddrSpace
        IN  IF off < n THEN Rd(m, src + off) ELSE m[j]]

\* A byte-by-byte copy from the lowest address up.  Byte i of the
\* destination receives what is then at src + i; when the destination lies
\* d bytes above the source, that byte was itself written i - d steps
\* earlier, so the first d source bytes repeat through the destination.
Ascending(m, src, dst, n) ==
    LET d == (dst - src) % AddrSpace
    IN  [j \in 1 .. AddrSpace |->
            LET off == ((j - 1) - dst) % AddrSpace
            IN  IF off >= n THEN m[j]
                ELSE IF d = 0 THEN Rd(m, src + off)
                ELSE Rd(m, src + (off % d))]

\* A byte-by-byte copy from the highest address down.  When the destination
\* lies e bytes below the source, byte i receives what the earlier write of
\* byte i + e left there, so the last e source bytes repeat downwards.
Descending(m, src, dst, n) ==
    LET e == (src - dst) % AddrSpace
    IN  [j \in 1 .. AddrSpace |->
            LET off == ((j - 1) - dst) % AddrSpace
            IN  IF off >= n THEN m[j]
                ELSE IF e = 0 THEN Rd(m, src + off)
                ELSE Rd(m, src + off + e * ((n - 1 - off) \div e))]

Overlapping(src, dst, n) == Range(src, n) \cap Range(dst, n) # {}

\* core::ptr::copy_nonoverlapping(src, dst, count) on memory m: the set of
\* outcomes.  On disjoint ranges it is the copy.  On overlapping ranges the
\* call is undefined behaviour: a build with the library's precondition
\* checks traps, a build without them runs a memcpy whose copy order is not
\* specified.
copy_nonoverlapping(m, src, dst, count) ==
    IF ~Overlapping(src, dst, count)
    THEN { [trap |-> FALSE, mem |-> Buffered(m, src, dst, count)] }
    ELSE { [trap |-> FALSE, mem |-> Buffered(m, src, dst, count)],
           [trap |-> FALSE, mem |-> Ascending(m, src, dst, count)],
           [trap |-> FALSE, mem |-> Descending(m, src, dst, count)],
           [trap |-> TRUE, mem |-> m] }

\* ------------------------------------------------------ the overlap guard
\* pointer.add(length) on a *const u8: the set of outcomes.  When the sum
\* leaves the address space the call is undefined behaviour: the address
\* wraps, or a build with the library's precondition checks traps.
PtrAdd(pointer, length) ==
    IF pointer + length < AddrSpace
    THEN { [trap |-> FALSE, addr |-> pointer + length] }
    ELSE { [trap |-> FALSE, addr |-> (pointer + length) % AddrSpace],
           [trap |-> TRUE, addr |-> 0] }

\* The three comparisons of check_overlapping once buffer_end is known.
Rejects(pointer, buffer_end) ==
    \/ (pointer >= area /\ pointer <= area_end)
    \/ (buffer_end >= area /\ buffer_end <= area_end)
    \/ (pointer <= area /\ buffer_end >= area_end)

\* Area::check_overlapping(pointer, length): the set of its outcomes,
\* "Ok" for Ok(()), "Err" for Err(()), "Trap" when the process aborts.
check_overlapping(pointer, length) ==
    IF pointer >= area /\ pointer <= area_end
    THEN { "Err" }
    ELSE { IF e.trap THEN "Trap"
           ELSE IF Rejects(pointer, e.addr) THEN "Err" ELSE "Ok"
           : e \in PtrAdd(pointer, length) }

\* ------------------------------------------------------- copy operations
\* What a call leaves behind: the status it returns ("Trap": the process
\* aborted inside the call) and the memory.
Done(o) == [status |-> IF o.trap THEN "Trap" ELSE "Ok", mem |-> o.mem]

\* ClipLen without the clip: the requested length is used as it is.
NoClip(length) == length

\* length.min(EXCHANGE_AREA_LEN)
ClipLen(length) == Min(length, EXCHANGE_AREA_LEN)

\* ShmCopyLen one field short: the size of a record without its last field.
ShmCopyLenShort == Min(ShmInfoSize - FieldSize, EXCHANGE_AREA_LEN)

\* core::mem::size_of::<ShmInfo>().min(EXCHANGE_AREA_LEN)
ShmCopyLen == Min(ShmInfoSize, EXCHANGE_AREA_LEN)

\* The guard of the byte-typed vector copies followed by the transfer.
Guarded(m, pointer, length, src, dst) ==
    UNION { IF g = "Err" THEN { [status |-> "Invalid", mem |-> m] }
            ELSE IF g = "Trap" THEN { [status |-> "Trap", mem |-> m] }
            ELSE { Done(o) :
                   o \in copy_nonoverlapping(m, src, dst, ClipLen(length)) }
            : g \in check_overlapping(pointer, length) }

\* <Area as ExhangeArea<u8>>::copy_vec_to(from, length)
U8CopyVecTo(m, from, length) == Guarded(m, from, length, from, area)

\* <Area as ExhangeArea<u8>>::copy_vec_from(to, length)
U8CopyVecFrom(m, to, length) == Guarded(m, to, length, area, to)

\* ShmCopyTo with the byte guard put in front of the transfer.
ShmCopyToGuarded(m, from) == Guarded(m, from, ShmInfoSize, from, area)

\* <Area as ExhangeArea<ShmInfo>>::copy_to(from)
ShmCopyTo(m, from) ==
    { Done(o) : o \in copy_nonoverlapping(m, from, area, ShmCopyLen) }

\* <Area as ExhangeArea<ShmInfo>>::copy_from(to)
ShmCopyFrom(m, to) ==
    { Done(o) : o \in copy_nonoverlapping(m, area, to, ShmCopyLen) }

\* The trait's default body of the four copy methods.
TraitDefault(m) == { [status |-> "Invalid", mem |-> m] }

\* area_length answering with the size of the transferred type.
area_length_of_type(self, T) ==
    IF T = "ShmInfo" THEN ShmInfoSize ELSE EXCHANGE_AREA_LEN

\* ExhangeArea::area_length(&self) for the transferred type T.
area_length(self, T) == EXCHANGE_AREA_LEN

\* ------------------------------------------------------------- ShmInfo
\* One field of the record at p: its FieldSize bytes.
Field(bytes, k) == [i \in 1 .. FieldSize |-> bytes[k * FieldSize + i]]

\* The ShmInfo value held in a sequence of bytes, field by field.
ShmInfoOf(bytes) ==
    [handle |-> Field(bytes, 0), label |-> Field(bytes, 1),
     base |-> Field(bytes, 2), len |-> Field(bytes, 3),
     perms |-> Field(bytes, 4)]

\* The ShmInfo record stored at address p.
ShmInfoAt(m, p) == ShmInfoOf(Bytes(m, p, ShmInfoSize))

\* ------------------------------------------------------------------ state
VARIABLES
    mem,        \* the address space: mem[a + 1] is the byte at address a
    handles,    \* number of Area handles created so far
    nops,       \* number of interface calls made so far
    call,       \* the last call: operation, type, pointer, length, handle
    status,     \* what the last call returned ("None" before any call)
    ret,        \* the value the last area_length() returned
    srcBefore,  \* the clipped source range of the last copy, before the call
    touched,    \* the addresses whose byte the last call changed
    prev,       \* the call before the last one, when it was a copy into the area
    written     \* per buffer offset, the byte the last successful write put there

vars == <<mem, handles, nops, call, status, ret, srcBefore, touched, prev,
          written>>

NoCall == [op |-> "none", T |-> "none", ptr |-> 0, len |-> 0, self |-> 0]
NoPrev == [op |-> "none", T |-> "none", ptr |-> 0, len |-> 0,
           status |-> "None", data |-> <<>>]

ToOps == { "copy_vec_to", "copy_to" }
FromOps == { "copy_vec_from", "copy_from" }
CopyOps == ToOps \cup FromOps

\* The memory a job finds when it starts using the interface: the image as
\* loaded (buffer zero-filled), or the image after an earlier exchange has
\* filled the whole buffer from the caller buffer at Above, which is what
\* copy_vec_to(Above, EXCHANGE_AREA_LEN + 1) leaves.
StartMem ==
    { InitMem,
      Buffered(InitMem, area_end + 10, area, EXCHANGE_AREA_LEN) }

\* The state once a first handle is made and before any call of the run.
Init ==
    /\ mem \in StartMem
    /\ handles = 1
    /\ nops = 0
    /\ call = NoCall
    /\ status = "None"
    /\ ret = 0
    /\ srcBefore = <<>>
    /\ touched = {}
    /\ prev = NoPrev
    /\ written = EXCHANGE_AREA(mem)

\* A call can be made while the process has not aborted.
CanCall == status # "Trap" /\ nops < MaxOps

\* The call before the last one, kept when it copied into the area.
Remember ==
    IF call.op \in ToOps
    THEN [op |-> call.op, T |-> call.T, ptr |-> call.ptr, len |-> call.len,
          status |-> status, data |-> srcBefore]
    ELSE NoPrev

\* The bookkeeping common to every copy call: r is the outcome, src the
\* source pointer and n the byte length the caller asked for.  srcBefore
\* keeps the part of the source that fits the buffer, as it was at the call.
Return(op, T, self, ptr, len, r, src, n) ==
    LET k == Min(n, EXCHANGE_AREA_LEN)
    IN  /\ mem' = r.mem
        /\ status' = r.status
        /\ call' = [op |-> op, T |-> T, ptr |-> ptr, len |-> len,
                    self |-> self]
        /\ srcBefore' = Bytes(mem, src, k)
        /\ touched' = { a \in Addr : r.mem[a + 1] # mem[a + 1] }
        /\ prev' = Remember
        /\ written' = IF op \in ToOps /\ r.status = "Ok"
                      THEN [i \in 1 .. EXCHANGE_AREA_LEN |->
                               IF i <= k THEN Rd(mem, src + i - 1)
                               ELSE written[i]]
                      ELSE written
        /\ nops' = nops + 1
        /\ ret' = 0
        /\ UNCHANGED handles

\* ------------------------------------------------------------------ inputs
\* Two caller buffers away from the exchange buffer, one on each side.
Below == area - 150
Above == area_end + 10

\* (pointer, length) arguments of the byte-typed vector copies: ranges that
\* start in, end in, or contain the buffer, ranges that touch it, ranges one
\* byte away from it, ranges far from it, and one whose end leaves the
\* address space.
VecArgs ==
    { <<area, 0>>, <<area, EXCHANGE_AREA_LEN + 1>>,
      <<area_end - 4, 4>>, <<area - 4, 8>>,
      <<area - 4, EXCHANGE_AREA_LEN + 8>>,
      <<area - 1, AddrSpace - 1>>,
      <<area - 100, 100>>, <<area_end, 4>>,
      <<area - 5, 4>>, <<area_end + 1, 4>>,
      <<Below, 100>>, <<Above, 100>>,
      <<Above, EXCHANGE_AREA_LEN + 1>> }

\* Pointers to ShmInfo records: two records away from the buffer, one that
\* touches its start, one that touches its end, one inside it and one
\* across its start.
ShmPtrs ==
    { Below, Above, area - ShmInfoSize, area_end, area + 4, area - 4 }

Types == { "u8", "ShmInfo" }

\* ----------------------------------------------------------------- actions
\* Area::new()
new ==
    /\ CanCall
    /\ handles < MaxHandles
    /\ handles' = handles + 1
    /\ call' = [NoCall EXCEPT !.op = "new", !.self = handles + 1]
    /\ status' = "None"
    /\ ret' = 0
    /\ srcBefore' = <<>>
    /\ touched' = {}
    /\ prev' = Remember
    /\ nops' = nops + 1
    /\ UNCHANGED <<mem, written>>

\* area.area_length() on handle self, for either transferred type
AreaLength ==
    /\ CanCall
    /\ \E self \in 1 .. handles, T \in Types :
        /\ ret' = area_length(self, T)
        /\ call' = [NoCall EXCEPT !.op = "area_length", !.T = T,
                                  !.self = self]
    /\ status' = "None"
    /\ srcBefore' = <<>>
    /\ touched' = {}
    /\ prev' = Remember
    /\ nops' = nops + 1
    /\ UNCHANGED <<mem, written, handles>>

\* <Area as ExhangeArea<u8>>::copy_vec_to(from, length)
copy_vec_to_u8 ==
    /\ CanCall
    /\ \E self \in 1 .. handles, a \in VecArgs :
        \E r \in U8CopyVecTo(mem, a[1], a[2]) :
            Return("copy_vec_to", "u8", self, a[1], a[2], r, a[1], a[2])

\* <Area as ExhangeArea<u8>>::copy_vec_from(to, length)
copy_vec_from_u8 ==
    /\ CanCall
    /\ \E self \in 1 .. handles, a \in VecArgs :
        \E r \in U8CopyVecFrom(mem, a[1], a[2]) :
            Return("copy_vec_from", "u8", self, a[1], a[2], r, area, a[2])

\* <Area as ExhangeArea<ShmInfo>>::copy_to(from)
copy_to_ShmInfo ==
    /\ CanCall
    /\ \E self \in 1 .. handles, from \in ShmPtrs :
        \E r \in ShmCopyTo(mem, from) :
            Return("copy_to", "ShmInfo", self, from, 1, r, from,
                   ShmInfoSize)

\* <Area as ExhangeArea<ShmInfo>>::copy_from(to)
copy_from_ShmInfo ==
    /\ CanCall
    /\ \E self \in 1 .. handles, to \in ShmPtrs :
        \E r \in ShmCopyFrom(mem, to) :
            Return("copy_from", "ShmInfo", self, to, 1, r, area,
                   ShmInfoSize)

\* The methods a type does not implement: copy_to / copy_from on u8 and
\* copy_vec_to / copy_vec_from on ShmInfo fall to the trait's default body.
default_u8 ==
    /\ CanCall
    /\ \E self \in 1 .. handles, op \in { "copy_to", "copy_from" } :
        \E r \in TraitDefault(mem) :
            Return(op, "u8", self, Below, 1, r,
                   IF op \in ToOps THEN Below ELSE area, 1)

default_ShmInfo ==
    /\ CanCall
    /\ \E self \in 1 .. handles, op \in { "copy_vec_to", "copy_vec_from" } :
        \E r \in TraitDefault(mem) :
            Return(op, "ShmInfo", self, Below, 2, r,
                   IF op \in ToOps THEN Below ELSE area,
                   2 * ShmInfoSize)

Next ==
    \/ new
    \/ AreaLength
    \/ copy_vec_to_u8
    \/ copy_vec_from_u8
    \/ copy_to_ShmInfo
    \/ copy_from_ShmInfo
    \/ default_u8
    \/ default_ShmInfo

Spec == Init /\ [][Next]_vars

\* The byte-typed interface alone: impl ExhangeArea<u8> for Area.
NextU8 ==
    \/ new
    \/ AreaLength
    \/ copy_vec_to_u8
    \/ copy_vec_from_u8
    \/ default_u8

SpecU8 == Init /\ [][NextU8]_vars

\* The record-typed interface alone: impl ExhangeArea<ShmInfo> for Area.
NextShmInfo ==
    \/ new
    \/ AreaLength
    \/ copy_to_ShmInfo
    \/ copy_from_ShmInfo
    \/ default_ShmInfo

SpecShmInfo == Init /\ [][NextShmInfo]_vars

\* ------------------------------------------------------- shared vocabulary
IsU8Vec == call.T = "u8" /\ call.op \in { "copy_vec_to", "copy_vec_from" }
IsShmSingle == call.T = "ShmInfo" /\ call.op \in { "copy_to", "copy_from" }

\* The byte length the last copy call asked for.
AskedBytes ==
    IF call.T = "u8" THEN call.len
    ELSE IF call.op \in { "copy_to", "copy_from" } THEN ShmInfoSize
    ELSE call.len * ShmInfoSize

\* The exchange buffer holds what it held before the last call.
BufferUntouched == touched \cap AreaRange = {}

\* The last call moved exactly n bytes: the destination's first n bytes are
\* the source's first n bytes as they were at the call, and no other byte of
\* memory changed.
Moved(n) ==
    /\ Len(srcBefore) >= n
    /\ IF call.op \in ToOps
       THEN /\ Bytes(mem, area, n) = SubSeq(srcBefore, 1, n)
            /\ touched \subseteq Range(area, n)
       ELSE /\ Bytes(mem, call.ptr, n) = SubSeq(srcBefore, 1, n)
            /\ touched \subseteq Range(call.ptr, n)

\* ------------------------------------------------------------------ claims
\* C1 (as stated): a byte-typed copy_vec_to / copy_vec_from returns Invalid
\* and leaves the exchange buffer as it was whenever (a) the pointer is the
\* buffer's start, (b) pointer + length is the buffer's end address, or
\* (c) the range starts before the buffer and ends at or beyond its end,
\* for every length.
C1_OverlapRejected ==
    (/\ IsU8Vec
     /\ \/ call.ptr = area
        \/ call.ptr + call.len = area_end
        \/ (call.ptr < area /\ call.ptr + call.len >= area_end))
    => (status = "Invalid" /\ BufferUntouched)

\* C2 (as stated): a caller byte buffer that touches the exchange buffer
\* without sharing a byte with it, ending where the buffer starts or starting
\* where the buffer ends, is accepted: the vector copy returns Ok.
C2_AdjacentAccepted ==
    (/\ IsU8Vec
     /\ call.len > 0
     /\ (call.ptr + call.len = area \/ call.ptr = area_end))
    => status = "Ok"

\* C3 (as stated): copy_vec_to(s, n) immediately followed by
\* copy_vec_from(d, n), with n <= AREA_LEN, s not overlapping the exchange
\* buffer and d disjoint from s and from the buffer, leaves d equal to s.
C3_ByteRoundTrip ==
    (/\ call.op = "copy_vec_from" /\ call.T = "u8"
     /\ prev.op = "copy_vec_to" /\ prev.T = "u8"
     /\ prev.len = call.len
     /\ call.len <= EXCHANGE_AREA_LEN
     /\ Range(prev.ptr, prev.len) \cap AreaRange = {}
     /\ Range(call.ptr, call.len)
            \cap (AreaRange \cup Range(prev.ptr, prev.len)) = {})
    => Bytes(mem, call.ptr, call.len) = prev.data

GuardAccepts ==
    call.ptr + call.len < area \/ call.ptr > area_end

C5_RecordRoundTrip ==
    (/\ call.op = "copy_from" /\ call.T = "ShmInfo"
     /\ prev.op = "copy_to" /\ prev.T = "ShmInfo"
     /\ call.ptr # prev.ptr
     /\ Range(prev.ptr, ShmInfoSize) \cap AreaRange = {}
     /\ Range(call.ptr, ShmInfoSize) \cap AreaRange = {})
    => /\ status = "Ok"
       /\ ShmInfoAt(mem, call.ptr) = ShmInfoOf(prev.data)

\* Witness of C5: the record at Below was copied to the area and read back
\* into the record at Above, which changed and now equals it.
C5_Witness ==
    /\ call.op = "copy_from" /\ call.T = "ShmInfo" /\ call.ptr = Above
    /\ prev.op = "copy_to" /\ prev.T = "ShmInfo" /\ prev.ptr = Below
    /\ ShmInfoAt(mem, Above) = ShmInfoOf(prev.data)
    /\ touched # {}

\* C6 (as stated): copy_to / copy_from on ShmInfo return Ok and move
\* min(size_of(ShmInfo), AREA_LEN) bytes for every pointer, also one inside
\* or overlapping the exchange buffer.
C6_NeverRefuses ==
    IsShmSingle
    => (status = "Ok" /\ Moved(Min(ShmInfoSize, EXCHANGE_AREA_LEN)))

\* C6 (amended): copy_to / copy_from on ShmInfo perform no overlap check:
\* for every pointer whose record shares no byte with the exchange buffer,
\* also a record touching the buffer's boundary that the byte guard would
\* reject, they move min(size_of(ShmInfo), AREA_LEN) bytes and return Ok.
\* (On a record overlapping the buffer the transfer is undefined behaviour
\* and no result is promised.)
C6_NoCheckWhenDisjoint ==
    (IsShmSingle /\ Range(call.ptr, ShmInfoSize) \cap AreaRange = {})
    => (status = "Ok" /\ Moved(Min(ShmInfoSize, EXCHANGE_AREA_LEN)))

\* Witness of C6: copy_to returned Ok and filled the buffer's first bytes
\* from a record that starts at the buffer's end address, a pointer
\* check_overlapping rejects.
C6_Witness ==
    /\ IsShmSingle /\ call.op = "copy_to"
    /\ call.ptr = area_end
    /\ check_overlapping(call.ptr, ShmInfoSize) = { "Err" }
    /\ status = "Ok"
    /\ touched # {}

\* C7 (as stated): every copy operation returns Ok or Invalid; on Invalid no
\* byte of memory changed; on Ok exactly min(requested byte length, AREA_LEN)
\* bytes were moved.
C7_AllOrNothing ==
    call.op \in CopyOps
    => /\ status \in { "Ok", "Invalid" }
       /\ status = "Invalid" => touched = {}
       /\ status = "Ok" => Moved(Min(AskedBytes, EXCHANGE_AREA_LEN))

\* C8: area_length() returns 128 on any handle and for either type, after
\* any calls, and changes neither the memory nor the record of what the
\* buffer holds.
C8_AreaLength ==
    [][call'.op = "area_length"
        => (ret' = 128 /\ ret' = EXCHANGE_AREA_LEN /\ mem' = mem
            /\ written' = written /\ handles' = handles)]_vars

\* Witness of C8: area_length() answered 128 right after a successful copy
\* into the area.
C8_Witness ==
    /\ call.op = "area_length"
    /\ ret = 128
    /\ prev.op = "copy_vec_to" /\ prev.status = "Ok"

\* C9 (as stated): whenever check_overlapping accepts (pointer, length), the
\* caller range [pointer, pointer + length) shares no address with the
\* exchange buffer, and the clipped ranges the copy then uses do not overlap.
C9_GuardSound ==
    (IsU8Vec /\ "Ok" \in check_overlapping(call.ptr, call.len))
    => /\ \A i \in 0 .. (call.len - 1) :
            ~(call.ptr + i >= area /\ call.ptr + i < area_end)
       /\ ~Overlapping(call.ptr, area, Min(call.len, EXCHANGE_AREA_LEN))

\* C10 (as stated): copy_vec_from and copy_from never change the exchange
\* buffer and change only the first min(requested, AREA_LEN) bytes at the
\* destination; copy_vec_to and copy_to(ShmInfo) change only the first
\* min(requested, AREA_LEN) bytes of the buffer and not the caller's source;
\* so each buffer byte holds what the last successful write covering its
\* offset wrote, or 0.
C10_Frame ==
    LET n == Min(AskedBytes, EXCHANGE_AREA_LEN)
    IN  /\ (call.op \in FromOps /\ (IsU8Vec \/ IsShmSingle))
            => (BufferUntouched /\ touched \subseteq Range(call.ptr, n))
        /\ (call.op \in ToOps /\ (IsU8Vec \/ IsShmSingle))
            => (/\ touched \subseteq Range(area, n)
                /\ touched \cap Range(call.ptr, AskedBytes) = {})
        /\ EXCHANGE_AREA(mem) = written

====
